---------------------------- MODULE Spec2Model ----------------------------
(***************************************************************************)
(* A model of ncmdump (src/ncmdump): the NCMRC4 stream cipher engine, the  *)
(* NeteaseCloudMusicFile container parser with its key / metadata / cover  *)
(* pipeline, and the per-file loop of __main__.                            *)
(*                                                                         *)
(* Bytes are the integers 0..255 and a bytes object is a sequence of them. *)
(* Python exceptions are modelled as result records carrying the name of   *)
(* the exception class in the field exc ("none" when the call returned).   *)
(*                                                                         *)
(* Two specifications share the module:                                    *)
(*   SpecRC4  one persistent NCMRC4 instance fed a ciphertext in chunks;   *)
(*   Spec     one .ncm file: construct / decrypt() / dump_music() called   *)
(*            in any order, and the per-file body of the __main__ loop.    *)
(***************************************************************************)
EXTENDS Integers, Sequences, FiniteSets, TLC

VARIABLES
    \* ---- SpecRC4 ----
    key,        \* the key the engine was constructed with
    engine,     \* the NCMRC4 instance: [key_box, key_pos]
    whole,      \* the whole ciphertext that is being handed over in chunks
    fed,        \* how many bytes of whole have been passed to decrypt() so far
    outs,       \* the concatenation of every decrypt() return value so far
    \* ---- Spec ----
    file,       \* the bytes of the file at self._path
    ncm,        \* the NeteaseCloudMusicFile object, NoObject when none exists
    fpos,       \* file offset the constructor's reads reached
    unwrapped,  \* _decrypt_rc4_key has returned on ncm
    resolved,   \* decrypt() has returned on ncm
    exc,        \* exception class raised by the last call, "none" if it returned
    lastOp,     \* the last call made: "none", "init", "decrypt", "dump_music", "main"
    disk,       \* the audio files written by _dump_music, oldest first
    tagger,     \* the tag writers (_addinfo_flac / _addinfo_mp3) invoked, oldest first
    log,        \* progress.log lines of the __main__ loop for this file
    dumps       \* number of dump_music() calls made

rc4vars == <<key, engine, whole, fed, outs>>
filevars == <<file, ncm, fpos, unwrapped, resolved, exc, lastOp, disk, tagger, log, dumps>>
vars == <<key, engine, whole, fed, outs,
          file, ncm, fpos, unwrapped, resolved, exc, lastOp, disk, tagger, log, dumps>>

-----------------------------------------------------------------------------
(* Bounds of the model.                                                    *)

\* length of the ciphertext fed to the persistent engine (crosses 256)
CtLen == 259
\* dump_music() calls made on one object
MaxDumps == 2

-----------------------------------------------------------------------------
(* Bytes.                                                                  *)

Byte == 0..255

\* bit n (n a power of two) of a ^ b
XorBit(a, b, n) == (((a \div n) % 2) + ((b \div n) % 2)) % 2

\* Python's a ^ b on two bytes
Xor(a, b) ==
    XorBit(a, b, 1) + 2 * XorBit(a, b, 2) + 4 * XorBit(a, b, 4)
    + 8 * XorBit(a, b, 8) + 16 * XorBit(a, b, 16) + 32 * XorBit(a, b, 32)
    + 64 * XorBit(a, b, 64) + 128 * XorBit(a, b, 128)

\* bytes(map(lambda b: b ^ m, data))
XorAll(data, m) == [i \in 1..Len(data) |-> Xor(data[i], m)]

\* data[:n] and data[n:] of Python
Take(data, n) == SubSeq(data, 1, IF n < Len(data) THEN n ELSE Len(data))
Drop(data, n) == SubSeq(data, n + 1, Len(data))

-----------------------------------------------------------------------------
(* crypto.NCMRC4                                                           *)

\* one iteration of the "standard RC4 init" loop, crypto.py:27-28;
\* st = [s_box, j] before iteration i
RC4KeyStep(st, k, i) ==
    LET j2 == (st.j + st.s_box[i] + k[(i % Len(k)) + 1]) % 256
    IN  [s_box |-> [st.s_box EXCEPT ![i] = st.s_box[j2], ![j2] = st.s_box[i]],
         j |-> j2]

\* the iterations lo..hi of that loop, in order (split in halves, the left
\* half evaluated first, only to keep the evaluation shallow; j and key_pos
\* are always bytes, so the ELSE branches are never taken)
RECURSIVE RC4KeyRange(_, _, _, _)
RC4KeyRange(st, k, lo, hi) ==
    IF lo > hi THEN st
    ELSE IF lo = hi THEN RC4KeyStep(st, k, lo)
    ELSE LET mid  == (lo + hi) \div 2
             left == RC4KeyRange(st, k, lo, mid)
         IN  IF left.j \in Byte THEN RC4KeyRange(left, k, mid + 1, hi) ELSE left

\* "standard RC4 init": for i in range(256), crypto.py:25-28
RC4KeySchedule(k) ==
    RC4KeyRange([s_box |-> [i \in 0..255 |-> i], j |-> 0], k, 0, 255).s_box

\* "non-standard keybox generate": crypto.py:31-35
RC4KeyBox(s_box) ==
    [i \in 0..255 |->
        LET j    == (i + 1) % 256
            s_j  == s_box[j]
            s_jj == s_box[(s_j + j) % 256]
        IN  s_box[(s_jj + s_j) % 256]]

\* NCMRC4.__init__: i % len(key) raises ZeroDivisionError on an empty key
NCMRC4_init_NoKeyCheck(k) ==
    LET kk == IF Len(k) = 0 THEN <<0>> ELSE k
    IN  [exc |-> "none",
         self |-> [key_box |-> RC4KeyBox(RC4KeySchedule(kk)),
                   key_pos |-> 0]]

NCMRC4_init(k) ==
    IF Len(k) = 0
    THEN [exc |-> "ZeroDivisionError", self |-> [key_box |-> <<>>, key_pos |-> 0]]
    ELSE [exc |-> "none",
          self |-> [key_box |-> RC4KeyBox(RC4KeySchedule(k)),
                    key_pos |-> 0]]

\* the position update of crypto.py:50-53
NextKeyPos(p) == IF p >= 255 THEN 0 ELSE p + 1

\* one iteration of the loop of NCMRC4.decrypt, crypto.py:48-53;
\* st = [plaintext, key_pos] before byte i of ciphertext
RC4Step(key_box, st, ciphertext, i) ==
    [plaintext |-> Append(st.plaintext, Xor(ciphertext[i], key_box[st.key_pos])),
     key_pos |-> NextKeyPos(st.key_pos)]

\* the iterations for bytes lo..hi of ciphertext, in order
RECURSIVE RC4Range(_, _, _, _, _)
RC4Range(key_box, st, ciphertext, lo, hi) ==
    IF lo > hi THEN st
    ELSE IF lo = hi THEN RC4Step(key_box, st, ciphertext, lo)
    ELSE LET mid  == (lo + hi) \div 2
             left == RC4Range(key_box, st, ciphertext, lo, mid)
         IN  IF left.key_pos \in Byte
             THEN RC4Range(key_box, left, ciphertext, mid + 1, hi)
             ELSE left

\* for b in ciphertext: ..., started at position pos
RC4Loop(key_box, pos, ciphertext) ==
    RC4Range(key_box, [plaintext |-> <<>>, key_pos |-> pos], ciphertext,
             1, Len(ciphertext))

\* a decrypt that starts every call at position 0 (key_pos kept local)
NCMRC4_decrypt_Restart(self, ciphertext) ==
    LET r == RC4Loop(self.key_box, 0, ciphertext)
    IN  [plaintext |-> r.plaintext,
         self |-> [self EXCEPT !.key_pos = r.key_pos]]

\* NCMRC4.decrypt: returns the plaintext and leaves self._key_pos advanced
NCMRC4_decrypt(self, ciphertext) ==
    LET r == RC4Loop(self.key_box, self.key_pos, ciphertext)
    IN  [plaintext |-> r.plaintext,
         self |-> [self EXCEPT !.key_pos = r.key_pos]]

-----------------------------------------------------------------------------
(* crypto.NCMAES.  AES itself is the library's (Crypto.Cipher.AES); what   *)
(* the program relies on is kept: ECB works block by block on 16-byte      *)
(* blocks with no chaining, each block goes through a key-dependent        *)
(* bijection, and data that is not block aligned raises ValueError.  The   *)
(* bijection used here (reverse the block, subtract the key bytes) stands  *)
(* in for the AES block function.                                          *)

\* len(self._key), the block size handed to unpad
AES_BLOCK == 16

AESBlockDecrypt(k, block) ==
    [i \in 1..AES_BLOCK |-> (block[AES_BLOCK + 1 - i] + 256 - k[i]) % 256]

AESBlockEncrypt(k, block) ==
    [i \in 1..AES_BLOCK |->
        (block[AES_BLOCK + 1 - i] + k[AES_BLOCK + 1 - i]) % 256]

\* NCMAES.decrypt: self._cryptor.decrypt(ciphertext)
NCMAES_decrypt(k, ciphertext) ==
    IF Len(ciphertext) % AES_BLOCK # 0
    THEN [exc |-> "ValueError", data |-> <<>>]
    ELSE [exc |-> "none",
          data |-> [i \in 1..Len(ciphertext) |->
                      LET b   == (i - 1) \div AES_BLOCK
                          blk == SubSeq(ciphertext, b * AES_BLOCK + 1, (b + 1) * AES_BLOCK)
                      IN  AESBlockDecrypt(k, blk)[((i - 1) % AES_BLOCK) + 1]]]

\* NCMAES.unpad: Crypto.Util.Padding.unpad(padded_data, 16, "pkcs7")
NCMAES_unpad(padded_data) ==
    LET n == Len(padded_data)
        padding_len == padded_data[n]
    IN  IF n = 0 THEN [exc |-> "ValueError", data |-> <<>>]
        ELSE IF n % AES_BLOCK # 0 THEN [exc |-> "ValueError", data |-> <<>>]
        ELSE IF padding_len < 1 \/ padding_len > AES_BLOCK
        THEN [exc |-> "ValueError", data |-> <<>>]
        ELSE IF \E i \in (n - padding_len + 1)..n : padded_data[i] # padding_len
        THEN [exc |-> "ValueError", data |-> <<>>]
        ELSE [exc |-> "none", data |-> SubSeq(padded_data, 1, n - padding_len)]

-----------------------------------------------------------------------------
(* base64.b64decode(s) = binascii.a2b_base64(s), the non-strict decoder:   *)
(* characters outside the alphabet are skipped, "=" counts as padding only *)
(* once two characters of a group were read, complete padding ends the     *)
(* input, and a group left open at the end raises binascii.Error (a        *)
(* ValueError).                                                            *)

\* the 6-bit value of an alphabet character, 64 for any other byte
B64Value(c) ==
    IF c >= 65 /\ c <= 90 THEN c - 65
    ELSE IF c >= 97 /\ c <= 122 THEN c - 71
    ELSE IF c >= 48 /\ c <= 57 THEN c + 4
    ELSE IF c = 43 THEN 62
    ELSE IF c = 47 THEN 63
    ELSE 64

\* one character of the decoder's loop;
\* st = [out, quad_pos, pads, leftchar, done]
B64Step(st, c) ==
    IF st.done THEN st
    ELSE IF c = 61
    THEN IF st.quad_pos >= 2 /\ st.quad_pos + st.pads + 1 >= 4
         THEN [st EXCEPT !.done = TRUE]
         ELSE IF st.quad_pos >= 2 THEN [st EXCEPT !.pads = st.pads + 1]
         ELSE st
    ELSE IF B64Value(c) >= 64 THEN st
    ELSE LET v == B64Value(c)
         IN  CASE st.quad_pos = 0 ->
                    [st EXCEPT !.quad_pos = 1, !.pads = 0, !.leftchar = v]
               [] st.quad_pos = 1 ->
                    [st EXCEPT !.quad_pos = 2, !.pads = 0,
                               !.out = Append(st.out, st.leftchar * 4 + (v \div 16)),
                               !.leftchar = v % 16]
               [] st.quad_pos = 2 ->
                    [st EXCEPT !.quad_pos = 3, !.pads = 0,
                               !.out = Append(st.out, st.leftchar * 16 + (v \div 4)),
                               !.leftchar = v % 4]
               [] OTHER ->
                    [st EXCEPT !.quad_pos = 0, !.pads = 0,
                               !.out = Append(st.out, st.leftchar * 64 + v),
                               !.leftchar = 0]

\* the characters lo..hi of s, in order
RECURSIVE B64Range(_, _, _, _)
B64Range(st, s, lo, hi) ==
    IF lo > hi THEN st
    ELSE IF lo = hi THEN B64Step(st, s[lo])
    ELSE LET mid  == (lo + hi) \div 2
             left == B64Range(st, s, lo, mid)
         IN  IF left.quad_pos \in 0..3 THEN B64Range(left, s, mid + 1, hi) ELSE left

\* the end of the decoder: a group left open without padding is an error
B64Finish(st) ==
    IF ~st.done /\ st.quad_pos # 0
    THEN [exc |-> "ValueError", data |-> <<>>]
    ELSE [exc |-> "none", data |-> st.out]

b64decode(s) ==
    B64Finish(B64Range([out |-> <<>>, quad_pos |-> 0, pads |-> 0,
                        leftchar |-> 0, done |-> FALSE], s, 1, Len(s)))

-----------------------------------------------------------------------------
(* json.loads, over the texts the containers of this model carry: each of  *)
(* these texts parses to the dict written next to it, and every other text *)
(* that reaches json.loads in this model is not JSON (JSONDecodeError, a   *)
(* ValueError).  A dict is a function from its keys.                       *)

EmptyDict == [k \in {} |-> ""]

\* dict.get(k, default)
Get(d, k, default) == IF k \in DOMAIN d THEN d[k] ELSE default

\* {}
J_EMPTY == <<123, 125>>
\* {"format":"flac"}
J_FLAC == <<123, 34, 102, 111, 114, 109, 97, 116, 34, 58, 34, 102, 108, 97, 99, 34, 125>>
\* {"format":"mp3"}
J_MP3 == <<123, 34, 102, 111, 114, 109, 97, 116, 34, 58, 34, 109, 112, 51, 34, 125>>
\* {"format":"ogg"}
J_OGG == <<123, 34, 102, 111, 114, 109, 97, 116, 34, 58, 34, 111, 103, 103, 34, 125>>
\* {"mainMusic":{"format":"flac"}}
J_DJ == <<123, 34, 109, 97, 105, 110, 77, 117, 115, 105, 99, 34, 58, 123, 34, 102, 111,
          114, 109, 97, 116, 34, 58, 34, 102, 108, 97, 99, 34, 125, 125>>
\* {"format":""}
J_NOFMT == <<123, 34, 102, 111, 114, 109, 97, 116, 34, 58, 34, 34, 125>>
\* {        (not JSON)
J_BROKEN == <<123>>

json_loads(text) ==
    CASE text = J_EMPTY -> [exc |-> "none", val |-> EmptyDict]
      [] text = J_FLAC  -> [exc |-> "none", val |-> [format |-> "flac"]]
      [] text = J_MP3   -> [exc |-> "none", val |-> [format |-> "mp3"]]
      [] text = J_OGG   -> [exc |-> "none", val |-> [format |-> "ogg"]]
      [] text = J_NOFMT -> [exc |-> "none", val |-> [format |-> ""]]
      [] text = J_DJ    -> [exc |-> "none", val |-> [mainMusic |-> [format |-> "flac"]]]
      [] OTHER          -> [exc |-> "ValueError", val |-> EmptyDict]

-----------------------------------------------------------------------------
(* core.MusicMetadata and core.Metadata                                    *)

\* MusicMetadata.__init__: self._data = data or {} ; dict.get("mainMusic")
\* returning None is given here as the empty dict it is replaced by
MusicMetadata(data) == data

\* MusicMetadata.format
format(music_metadata) == Get(music_metadata, "format", "mp3")

\* b"music:{}", b"music", b"dj" and the byte b":"
DEFAULT_METADATA == <<109, 117, 115, 105, 99, 58, 123, 125>>
B_music == <<109, 117, 115, 105, 99>>
B_dj == <<100, 106>>
COLON == 58

\* bytes.index(b":"): the least index (from 0) holding a colon, -1 for the
\* ValueError of a missing one
IndexOfColon(data) ==
    IF \E i \in 1..Len(data) : data[i] = COLON
    THEN (CHOOSE i \in 1..Len(data) :
            /\ data[i] = COLON
            /\ \A h \in 1..(i - 1) : data[h] # COLON) - 1
    ELSE -1

\* the value of a Metadata whose constructor raised
NoMetadata == [type |-> <<>>, data |-> EmptyDict, music_metadata |-> EmptyDict]

\* core.py:137-142: the branch on self.type
Metadata_typed(type, js) ==
    IF js.exc # "none" THEN [exc |-> js.exc, self |-> NoMetadata]
    ELSE IF type = B_music
    THEN [exc |-> "none",
          self |-> [type |-> type, data |-> js.val,
                    music_metadata |-> MusicMetadata(js.val)]]
    ELSE IF type = B_dj
    THEN [exc |-> "none",
          self |-> [type |-> type, data |-> js.val,
                    music_metadata |->
                        MusicMetadata(Get(js.val, "mainMusic", EmptyDict))]]
    ELSE [exc |-> "TypeError", self |-> NoMetadata]

\* core.py:134-135: split at the first colon, json.loads of what follows
Metadata_split(m, colon) ==
    IF colon < 0 THEN [exc |-> "ValueError", self |-> NoMetadata]
    ELSE Metadata_typed(Take(m, colon), json_loads(Drop(m, colon + 1)))

\* core.py:132 is the argument: metadata or b"music:{}"
Metadata_of(m) == Metadata_split(m, IndexOfColon(m))

\* Metadata.__init__(metadata)
Metadata(metadata) ==
    Metadata_of(IF Len(metadata) = 0 THEN DEFAULT_METADATA ELSE metadata)

-----------------------------------------------------------------------------
(* core.NeteaseCloudMusicFile                                              *)

\* b"CTENFDAM"
MAGIC_HEADER == <<67, 84, 69, 78, 70, 68, 65, 77>>
\* bytes.fromhex("687A4852416D736F356B496E62617857")
AES_KEY_RC4_KEY ==
    <<104, 122, 72, 82, 65, 109, 115, 111, 53, 107, 73, 110, 98, 97, 120, 87>>
RC4_KEY_XORBYTE == 100
\* bytes.fromhex("2331346C6A6B5F215C5D2630553C2728")
AES_KEY_METADATA ==
    <<35, 49, 52, 108, 106, 107, 95, 33, 92, 93, 38, 48, 85, 60, 39, 40>>
METADATA_XORBYTE == 99
\* b"neteasecloudmusic"
KEY_PREFIX ==
    <<110, 101, 116, 101, 97, 115, 101, 99, 108, 111, 117, 100, 109, 117, 115, 105, 99>>
\* b"163 key(Don't modify):"
META_PREFIX ==
    <<49, 54, 51, 32, 107, 101, 121, 40, 68, 111, 110, 39, 116, 32, 109, 111, 100,
      105, 102, 121, 41, 58>>

\* the value of ncm while no object exists (constructor not run, or raised)
NoObject == [alive |-> FALSE]

\* ncmfile.read(n) at offset pos: at most n bytes, fewer at the end of file
Read(f, pos, n) == SubSeq(f, pos + 1, IF pos + n < Len(f) THEN pos + n ELSE Len(f))

\* int.from_bytes(bs, "little"), of however many bytes were read
RECURSIVE from_bytes_little(_)
from_bytes_little(bs) ==
    IF Len(bs) = 0 THEN 0 ELSE bs[1] + 256 * from_bytes_little(Tail(bs))

\* a header test that accepts any prefix of the magic
HeaderMismatch_Prefix(hdr) == hdr # Take(MAGIC_HEADER, Len(hdr))

\* self._hdr != self.MAGIC_HEADER
HeaderMismatch(hdr) == hdr # MAGIC_HEADER

\* the object before _parse has assigned anything
Blank ==
    [alive |-> TRUE, hdr |-> <<>>, gap1 |-> <<>>,
     rc4_key_enc_size |-> 0, rc4_key_enc |-> <<>>, rc4_key |-> <<>>,
     metadata_enc_size |-> 0, metadata_enc |-> <<>>, metadata |-> NoMetadata,
     crc32 |-> 0, gap2 |-> <<>>,
     cover_data_size |-> 0, cover_data |-> <<>>,
     music_data_enc |-> <<>>, music_data |-> <<>>,
     meta_steps |-> <<>>]

(* _parse, one operator per read in the order of core.py:211-235.  Each    *)
(* takes the file f, the offset pos at which the bytes r were just read,   *)
(* and the object as assigned so far; fpos is the offset reached when the  *)
(* with block is left.                                                     *)

\* core.py:234-235: the rest of the file
Parse_music(f, pos, self) ==
    [exc |-> "none", fpos |-> Len(f),
     self |-> [self EXCEPT !.music_data_enc = Drop(f, pos), !.music_data = <<>>]]

\* core.py:232
Parse_cover(f, pos, self, r) ==
    Parse_music(f, pos + Len(r), [self EXCEPT !.cover_data = r])

\* core.py:231
Parse_cover_size(f, pos, self, r) ==
    Parse_cover(f, pos + Len(r),
                [self EXCEPT !.cover_data_size = from_bytes_little(r)],
                Read(f, pos + Len(r), from_bytes_little(r)))

\* core.py:229
Parse_gap2(f, pos, self, r) ==
    Parse_cover_size(f, pos + Len(r), [self EXCEPT !.gap2 = r],
                     Read(f, pos + Len(r), 4))

\* core.py:228
Parse_crc32(f, pos, self, r) ==
    Parse_gap2(f, pos + Len(r), [self EXCEPT !.crc32 = from_bytes_little(r)],
               Read(f, pos + Len(r), 5))

\* core.py:224-225
Parse_metadata(f, pos, self, r) ==
    Parse_crc32(f, pos + Len(r),
                [self EXCEPT !.metadata_enc = r, !.metadata = Metadata(<<>>).self],
                Read(f, pos + Len(r), 4))

\* core.py:223
Parse_metadata_size(f, pos, self, r) ==
    Parse_metadata(f, pos + Len(r),
                   [self EXCEPT !.metadata_enc_size = from_bytes_little(r)],
                   Read(f, pos + Len(r), from_bytes_little(r)))

\* core.py:220-221
Parse_rc4_key(f, pos, self, r) ==
    Parse_metadata_size(f, pos + Len(r),
                        [self EXCEPT !.rc4_key_enc = r, !.rc4_key = <<>>],
                        Read(f, pos + Len(r), 4))

\* core.py:219
Parse_rc4_key_size(f, pos, self, r) ==
    Parse_rc4_key(f, pos + Len(r),
                  [self EXCEPT !.rc4_key_enc_size = from_bytes_little(r)],
                  Read(f, pos + Len(r), from_bytes_little(r)))

\* core.py:217
Parse_gap1(f, pos, self, r) ==
    Parse_rc4_key_size(f, pos + Len(r), [self EXCEPT !.gap1 = r],
                       Read(f, pos + Len(r), 4))

\* core.py:211-214
Parse_hdr(f, hdr) ==
    IF HeaderMismatch(hdr)
    THEN [exc |-> "TypeError", fpos |-> Len(hdr), self |-> NoObject]
    ELSE Parse_gap1(f, Len(hdr), [Blank EXCEPT !.hdr = hdr], Read(f, Len(hdr), 2))

\* NeteaseCloudMusicFile.__init__ / _parse on the file bytes f
Parse(f) == Parse_hdr(f, Read(f, 0, 8))

\* the properties has_metadata and has_cover
has_metadata(self) == self.metadata_enc_size > 0
has_cover(self) == self.cover_data_size > 0

\* core.py:246-248: unpad, then drop len(b"neteasecloudmusic") bytes
Rc4Key_unpadded(self, u) ==
    IF u.exc # "none" THEN [exc |-> u.exc, self |-> self]
    ELSE [exc |-> "none",
          self |-> [self EXCEPT !.rc4_key = Drop(u.data, Len(KEY_PREFIX))]]

\* core.py:246: cryptor.decrypt
Rc4Key_decrypted(self, d) ==
    IF d.exc # "none" THEN [exc |-> d.exc, self |-> self]
    ELSE Rc4Key_unpadded(self, NCMAES_unpad(d.data))

\* _decrypt_rc4_key
DecryptRc4Key(self) ==
    Rc4Key_decrypted(self,
        NCMAES_decrypt(AES_KEY_RC4_KEY, XorAll(self.rc4_key_enc, RC4_KEY_XORBYTE)))

\* _decrypt_metadata with the size test dropped
DecryptMetadataGuard_Always(self) == TRUE

\* "if self._metadata_enc_size > 0" of _decrypt_metadata
DecryptMetadataGuard(self) == self.metadata_enc_size > 0

(* _decrypt_metadata; meta_steps records the transforms that were run.     *)

\* core.py:265
Meta_built(self, m) ==
    IF m.exc # "none"
    THEN [exc |-> m.exc,
          self |-> [self EXCEPT
                      !.meta_steps = <<"xor", "b64decode", "aes", "unpad", "Metadata">>]]
    ELSE [exc |-> "none",
          self |-> [self EXCEPT
                      !.metadata = m.self,
                      !.meta_steps = <<"xor", "b64decode", "aes", "unpad", "Metadata">>]]

\* core.py:263: unpad
Meta_unpadded(self, u) ==
    IF u.exc # "none"
    THEN [exc |-> u.exc,
          self |-> [self EXCEPT !.meta_steps = <<"xor", "b64decode", "aes", "unpad">>]]
    ELSE Meta_built(self, Metadata(u.data))

\* core.py:263: cryptor.decrypt
Meta_decrypted(self, d) ==
    IF d.exc # "none"
    THEN [exc |-> d.exc,
          self |-> [self EXCEPT !.meta_steps = <<"xor", "b64decode", "aes">>]]
    ELSE Meta_unpadded(self, NCMAES_unpad(d.data))

\* core.py:262: b64decode of what follows the 22-byte literal
Meta_decoded(self, b) ==
    IF b.exc # "none"
    THEN [exc |-> b.exc, self |-> [self EXCEPT !.meta_steps = <<"xor", "b64decode">>]]
    ELSE Meta_decrypted(self, NCMAES_decrypt(AES_KEY_METADATA, b.data))

\* _decrypt_metadata
DecryptMetadata(self) ==
    IF ~DecryptMetadataGuard(self)
    THEN [exc |-> "none", self |-> [self EXCEPT !.meta_steps = <<>>]]
    ELSE Meta_decoded(self,
            b64decode(Drop(XorAll(self.metadata_enc, METADATA_XORBYTE),
                           Len(META_PREFIX))))

\* what request.urlopen(cover_url) can do: raise, or answer with a status
\* and a body
FetchOutcomes ==
    { [raises |-> TRUE,  status |-> 0,   body |-> <<>>],
      [raises |-> FALSE, status |-> 200, body |-> <<255, 216, 255>>],
      [raises |-> FALSE, status |-> 200, body |-> <<>>],
      [raises |-> FALSE, status |-> 400, body |-> <<60, 104>>] }

\* _try_get_cover_data, fetch the outcome of the urlopen it may make
TryGetCoverData(self, fetch) ==
    IF self.cover_data_size <= 0 /\ ~fetch.raises /\ fetch.status < 400
    THEN [self EXCEPT !.cover_data = fetch.body,
                      !.cover_data_size = Len(fetch.body)]
    ELSE self

\* core.py:298-302, after _decrypt_metadata
Decrypt_metadata(m, fetch) ==
    IF m.exc # "none" THEN [exc |-> m.exc, self |-> m.self, unwrapped |-> TRUE]
    ELSE [exc |-> "none", self |-> TryGetCoverData(m.self, fetch), unwrapped |-> TRUE]

\* core.py:297-298, after _decrypt_rc4_key
Decrypt_rc4_key(k, fetch) ==
    IF k.exc # "none" THEN [exc |-> k.exc, self |-> k.self, unwrapped |-> FALSE]
    ELSE Decrypt_metadata(DecryptMetadata(k.self), fetch)

\* decrypt(): the three steps in order, an exception of one ending the
\* call; unwrapped tells whether _decrypt_rc4_key returned
Decrypt(self, fetch) == Decrypt_rc4_key(DecryptRc4Key(self), fetch)

\* an engine constructor that takes an empty key as a single zero byte
EngineFor_AnyKey(k) == NCMRC4_init_NoKeyCheck(k)

\* crypto.NCMRC4(self._rc4_key) of _decrypt_music_data
EngineFor(k) == NCMRC4_init(k)

\* a music decrypt on an engine that already consumed one byte
MusicDecrypt_Offset(engine0, data) ==
    NCMRC4_decrypt([engine0 EXCEPT !.key_pos = 1], data).plaintext

\* cryptor.decrypt(self._music_data_enc) of _decrypt_music_data
MusicDecrypt(engine0, data) == NCMRC4_decrypt(engine0, data).plaintext

\* core.py:274
DecryptMusicData_with(self, cryptor) ==
    IF cryptor.exc # "none" THEN [exc |-> cryptor.exc, self |-> self]
    ELSE [exc |-> "none",
          self |-> [self EXCEPT
                      !.music_data = MusicDecrypt(cryptor.self, self.music_data_enc)]]

\* _decrypt_music_data
DecryptMusicData(self) == DecryptMusicData_with(self, EngineFor(self.rc4_key))

\* path.with_suffix(f".{format}") raises ValueError for a suffix pathlib
\* takes as invalid: "." (an empty format tag) or one holding a path
\* separator; of the tags of this model only the empty one is invalid
WithSuffixRaises(fmt) == fmt = ""

\* core.py:349-354: write_bytes to path.with_suffix(.format); written is
\* the file written, <<>> when the call raised before writing
DumpMusicRaw_write(self, d) ==
    IF d.exc # "none" THEN [exc |-> d.exc, self |-> self, written |-> <<>>]
    ELSE IF WithSuffixRaises(format(d.self.metadata.music_metadata))
    THEN [exc |-> "ValueError", self |-> d.self, written |-> <<>>]
    ELSE [exc |-> "none", self |-> d.self,
          written |-> << [suffix |-> format(d.self.metadata.music_metadata),
                          data |-> d.self.music_data] >>]

\* _dump_music: lazy decrypt, then the write
DumpMusicRaw(self) ==
    DumpMusicRaw_write(self,
        IF Len(self.music_data) = 0 THEN DecryptMusicData(self)
        ELSE [exc |-> "none", self |-> self])

\* what the tag writer (mutagen, PIL) can do with the written file
TagOutcomes == {"ok", "MutagenError"}

\* the if / elif / else of dump_music on music_metadata.format: the tag
\* writer it calls, "none" for the branch that raises NotImplementedError
TagWriterFor(fmt) ==
    IF fmt = "flac" THEN "_addinfo_flac"
    ELSE IF fmt = "mp3" THEN "_addinfo_mp3"
    ELSE "none"

\* core.py:414-421: the tag writer called on the written file
DumpMusic_tag(r, writer, tag) ==
    IF r.exc # "none"
    THEN [exc |-> r.exc, self |-> r.self, written |-> r.written, tags |-> <<>>]
    ELSE IF writer # "none"
    THEN [exc |-> IF tag = "ok" THEN "none" ELSE tag, self |-> r.self,
          written |-> r.written, tags |-> <<writer>>]
    ELSE [exc |-> "NotImplementedError", self |-> r.self,
          written |-> r.written, tags |-> <<>>]

\* core.py:412
DumpMusic_dumped(r, tag) ==
    DumpMusic_tag(r, TagWriterFor(format(r.self.metadata.music_metadata)), tag)

\* dump_music; tags is the tag writers invoked, tag the outcome of one
DumpMusic(self, tag) == DumpMusic_dumped(DumpMusicRaw(self), tag)

(* __main__: the body of "for ncm_path in files" for one file, run without *)
(* --dump-metadata and --dump-cover; log is what progress.log received,    *)
(* ncmfile the variable of that name (NoObject while it is unbound).       *)

\* __main__.py:59-73
Main_dumped(p, d, m) ==
    IF m.exc # "none"
    THEN [ncmfile |-> m.self, written |-> m.written, tags |-> m.tags,
          log |-> {<<"ERROR", m.exc>>},
          fpos |-> p.fpos, unwrapped |-> TRUE, resolved |-> TRUE]
    ELSE [ncmfile |-> m.self, written |-> m.written, tags |-> m.tags,
          log |-> (IF has_metadata(m.self) THEN {}
                   ELSE {<<"WARNING", "no metadata found">>})
                  \cup
                  (IF has_cover(m.self) THEN {}
                   ELSE {<<"WARNING", "no cover data found">>}),
          fpos |-> p.fpos, unwrapped |-> TRUE, resolved |-> TRUE]

\* __main__.py:58-59, after decrypt()
Main_decrypted(p, d, tag) ==
    IF d.exc # "none"
    THEN [ncmfile |-> NoObject, written |-> <<>>, tags |-> <<>>,
          log |-> {<<"ERROR", d.exc>>},
          fpos |-> p.fpos, unwrapped |-> d.unwrapped, resolved |-> FALSE]
    ELSE Main_dumped(p, d, DumpMusic(d.self, tag))

\* __main__.py:58, after the constructor
Main_parsed(p, fetch, tag) ==
    IF p.exc # "none"
    THEN [ncmfile |-> NoObject, written |-> <<>>, tags |-> <<>>,
          log |-> {<<"ERROR", p.exc>>},
          fpos |-> p.fpos, unwrapped |-> FALSE, resolved |-> FALSE]
    ELSE Main_decrypted(p, Decrypt(p.self, fetch), tag)

MainBody(f, fetch, tag) == Main_parsed(Parse(f), fetch, tag)

-----------------------------------------------------------------------------
(* The input files of Spec: containers in the layout _parse reads, their   *)
(* sections built by running the transforms of _decrypt_rc4_key and        *)
(* _decrypt_metadata backwards.                                            *)

\* n.to_bytes(4, "little")
LE32(n) == <<n % 256, (n \div 256) % 256, (n \div 65536) % 256, (n \div 16777216) % 256>>

\* PKCS7 padding to the AES block size
Pad(data) ==
    LET padding_len == AES_BLOCK - (Len(data) % AES_BLOCK)
    IN  data \o [i \in 1..padding_len |-> padding_len]

\* ECB encryption, the inverse of NCMAES_decrypt
AESEncrypt(k, data) ==
    [i \in 1..Len(data) |->
        LET b   == (i - 1) \div AES_BLOCK
            blk == SubSeq(data, b * AES_BLOCK + 1, (b + 1) * AES_BLOCK)
        IN  AESBlockEncrypt(k, blk)[((i - 1) % AES_BLOCK) + 1]]

\* the alphabet character of a 6-bit value
B64Char(v) ==
    IF v < 26 THEN v + 65
    ELSE IF v < 52 THEN v + 71
    ELSE IF v < 62 THEN v - 4
    ELSE IF v = 62 THEN 43
    ELSE 47

\* base64.b64encode
b64encode(data) ==
    LET n == Len(data)
        at(i) == IF i <= n THEN data[i] ELSE 0
    IN  [i \in 1..(4 * ((n + 2) \div 3)) |->
            LET q  == (i - 1) \div 4
                b0 == at(3 * q + 1)
                b1 == at(3 * q + 2)
                b2 == at(3 * q + 3)
                c  == (i - 1) % 4
            IN  IF c = 0 THEN B64Char(b0 \div 4)
                ELSE IF c = 1 THEN B64Char((b0 % 4) * 16 + (b1 \div 16))
                ELSE IF c = 2
                THEN (IF 3 * q + 2 > n THEN 61
                      ELSE B64Char((b1 % 16) * 4 + (b2 \div 64)))
                ELSE (IF 3 * q + 3 > n THEN 61 ELSE B64Char(b2 % 64))]

\* the keyBlob that unwraps to plaintext
KeyBlob(plaintext) ==
    XorAll(AESEncrypt(AES_KEY_RC4_KEY, Pad(plaintext)), RC4_KEY_XORBYTE)

\* the metadataBlob that decodes to plaintext
MetaBlob(plaintext) ==
    XorAll(META_PREFIX \o b64encode(AESEncrypt(AES_KEY_METADATA, Pad(plaintext))),
           METADATA_XORBYTE)

\* a complete container
Container(keyBlob, metaBlob, cover, audio) ==
    MAGIC_HEADER \o <<1, 112>>
    \o LE32(Len(keyBlob)) \o keyBlob
    \o LE32(Len(metaBlob)) \o metaBlob
    \o <<17, 34, 51, 68>> \o <<0, 0, 0, 0, 0>>
    \o LE32(Len(cover)) \o cover
    \o audio

\* key sections: a 3-byte key, an empty key behind the literal, a 3-byte
\* key behind a wrong literal, a plaintext shorter than the literal, and a
\* block whose padding is wrong
K_OK == KeyBlob(KEY_PREFIX \o <<9, 8, 7>>)
K_EMPTY == KeyBlob(KEY_PREFIX)
K_BADPREFIX == KeyBlob(<<120>> \o Tail(KEY_PREFIX) \o <<9, 8, 7>>)
K_SHORT == KeyBlob(<<1, 2, 3>>)
K_BADPAD == XorAll(AESEncrypt(AES_KEY_RC4_KEY, [i \in 1..AES_BLOCK |-> 0]), RC4_KEY_XORBYTE)

\* metadata sections
M_NONE == <<>>
M_MUSIC_EMPTY == MetaBlob(B_music \o <<COLON>> \o J_EMPTY)
M_MUSIC_FLAC == MetaBlob(B_music \o <<COLON>> \o J_FLAC)
M_MUSIC_MP3 == MetaBlob(B_music \o <<COLON>> \o J_MP3)
M_MUSIC_OGG == MetaBlob(B_music \o <<COLON>> \o J_OGG)
M_MUSIC_NOFMT == MetaBlob(B_music \o <<COLON>> \o J_NOFMT)
M_DJ == MetaBlob(B_dj \o <<COLON>> \o J_DJ)
M_DJ_EMPTY == MetaBlob(B_dj \o <<COLON>> \o J_EMPTY)
\* b"xx:{}", b"music:{", b"music" and a block with wrong padding
M_UNKNOWN_TYPE == MetaBlob(<<120, 120, COLON>> \o J_EMPTY)
M_BAD_JSON == MetaBlob(B_music \o <<COLON>> \o J_BROKEN)
M_NO_COLON == MetaBlob(B_music)
M_BADPAD ==
    XorAll(META_PREFIX \o b64encode(AESEncrypt(AES_KEY_METADATA, [i \in 1..AES_BLOCK |-> 0])),
           METADATA_XORBYTE)

COVER == <<137, 80>>
AUDIO == <<10, 20, 30, 40>>

\* the complete containers
CompleteFiles ==
    { Container(k, M_MUSIC_FLAC, COVER, AUDIO) :
        k \in {K_OK, K_EMPTY, K_BADPREFIX, K_SHORT, K_BADPAD} }
    \cup
    { Container(K_OK, m, <<>>, AUDIO) :
        m \in {M_NONE, M_MUSIC_EMPTY, M_MUSIC_FLAC, M_MUSIC_MP3, M_MUSIC_OGG,
               M_MUSIC_NOFMT, M_DJ,
               M_DJ_EMPTY, M_UNKNOWN_TYPE, M_BAD_JSON, M_NO_COLON, M_BADPAD} }
    \cup
    { Container(K_OK, M_NONE, <<>>, <<>>),
      Container(K_OK, M_MUSIC_OGG, COVER, <<>>),
      Container(K_EMPTY, M_MUSIC_OGG, COVER, AUDIO),
      Container(K_EMPTY, M_NONE, <<>>, <<>>),
      Container(K_BADPREFIX, M_NONE, <<>>, AUDIO),
      Container(K_OK, M_UNKNOWN_TYPE, COVER, AUDIO) }

\* files cut short: every proper prefix of one of the containers
TruncatedFiles ==
    LET f == Container(K_OK, M_MUSIC_OGG, COVER, AUDIO)
    IN  { Take(f, n) : n \in 0..(Len(f) - 1) }

\* files that do not start with the magic: a wrong first byte, a wrong last
\* byte of the magic, and the magic of another format, before a valid body
BadMagicFiles ==
    LET f == Container(K_OK, M_MUSIC_FLAC, COVER, AUDIO)
    IN  { <<88>> \o Tail(f),
          Take(f, 7) \o <<88>> \o Drop(f, 8),
          <<102, 76, 97, 67>> \o f,
          Tail(f) }

Files == CompleteFiles \cup TruncatedFiles \cup BadMagicFiles

-----------------------------------------------------------------------------
(* SpecRC4: one persistent engine, one ciphertext handed over in chunks.   *)

\* keys the engine is constructed with: one byte, a 17-byte key, and a
\* key longer than that
RC4Keys ==
    { <<1>>,
      <<110, 101, 116, 101, 97, 115, 101, 99, 108, 111, 117, 100, 109, 117, 115, 105, 99>>,
      [i \in 1..20 |-> (37 * i + 11) % 256] }

\* ciphertexts of CtLen bytes
Ciphertexts ==
    { [i \in 1..CtLen |-> (m[1] * i + m[2]) % 256] :
        m \in { <<0, 255>>, <<7, 3>> } }

\* chunk lengths offered to decrypt(): empty, short, and ones that reach,
\* end at and cross the 256-byte boundary
ChunkLens == {0, 1, 3, 255, 256, 257}

InitRC4 ==
    /\ key \in RC4Keys
    /\ engine = NCMRC4_init(key).self
    /\ whole \in Ciphertexts
    /\ fed = 0
    /\ outs = <<>>
    /\ file = <<>>
    /\ ncm = NoObject
    /\ fpos = 0
    /\ unwrapped = FALSE
    /\ resolved = FALSE
    /\ exc = "none"
    /\ lastOp = "none"
    /\ disk = <<>>
    /\ tagger = <<>>
    /\ log = {}
    /\ dumps = 0

\* one call engine.decrypt(chunk), chunk the next n bytes of whole
DecryptChunk(n) ==
    /\ fed + n <= Len(whole)
    /\ LET r == NCMRC4_decrypt(engine, SubSeq(whole, fed + 1, fed + n))
       IN  /\ engine' = r.self
           /\ outs' = outs \o r.plaintext
    /\ fed' = fed + n
    /\ UNCHANGED <<key, whole>>
    /\ UNCHANGED filevars

NextRC4 == \E n \in ChunkLens : DecryptChunk(n)

SpecRC4 == InitRC4 /\ [][NextRC4]_vars

\* C1: the concatenation of the decrypt(chunk) outputs of the persistent
\* engine equals one decrypt of the bytes fed so far on a fresh engine with
\* the same key, and the k-th byte fed is XORed with key_box[(k-1) mod 256]
\* (k counted from 1), however the bytes were split into chunks.
C1_ChunkInvariance ==
    LET fresh == NCMRC4_init(key).self
        sofar == SubSeq(whole, 1, fed)
    IN  /\ outs = NCMRC4_decrypt(fresh, sofar).plaintext
        /\ Len(outs) = fed
        /\ \A k \in 1..fed : outs[k] = Xor(whole[k], fresh.key_box[(k - 1) % 256])
        /\ engine.key_pos = fed % 256
        /\ engine.key_box = fresh.key_box

\* the whole ciphertext went through decrypt() in several calls (no chunk
\* is as long as the ciphertext), past the wrap of the 256-byte table
C1_Witness ==
    /\ fed = CtLen
    /\ fed > 256
    /\ engine.key_pos = CtLen % 256

-----------------------------------------------------------------------------
(* Spec: one file, and the calls a caller can make on it.                  *)

Init ==
    /\ file \in Files
    /\ ncm = NoObject
    /\ fpos = 0
    /\ unwrapped = FALSE
    /\ resolved = FALSE
    /\ exc = "none"
    /\ lastOp = "none"
    /\ disk = <<>>
    /\ tagger = <<>>
    /\ log = {}
    /\ dumps = 0
    /\ key = <<>>
    /\ engine = [key_box |-> <<>>, key_pos |-> 0]
    /\ whole = <<>>
    /\ fed = 0
    /\ outs = <<>>

\* ncm = NeteaseCloudMusicFile(path)
Construct ==
    /\ lastOp = "none"
    /\ LET p == Parse(file)
       IN  /\ ncm' = p.self
           /\ exc' = p.exc
           /\ fpos' = p.fpos
    /\ lastOp' = "init"
    /\ UNCHANGED <<file, unwrapped, resolved, disk, tagger, log, dumps>>
    /\ UNCHANGED rc4vars

\* ncm.decrypt()
DecryptCall(fetch) ==
    /\ ncm.alive
    /\ lastOp # "main"
    /\ LET d == Decrypt(ncm, fetch)
       IN  /\ ncm' = d.self
           /\ exc' = d.exc
           /\ unwrapped' = (unwrapped \/ d.unwrapped)
           /\ resolved' = (resolved \/ d.exc = "none")
    /\ lastOp' = "decrypt"
    /\ UNCHANGED <<file, fpos, disk, tagger, log, dumps>>
    /\ UNCHANGED rc4vars

\* ncm.dump_music(path)
DumpMusicCall(tag) ==
    /\ ncm.alive
    /\ lastOp # "main"
    /\ dumps < MaxDumps
    /\ LET m == DumpMusic(ncm, tag)
       IN  /\ ncm' = m.self
           /\ exc' = m.exc
           /\ disk' = disk \o m.written
           /\ tagger' = tagger \o m.tags
    /\ dumps' = dumps + 1
    /\ lastOp' = "dump_music"
    /\ UNCHANGED <<file, fpos, unwrapped, resolved, log>>
    /\ UNCHANGED rc4vars

\* one pass of the loop of __main__ over this file
MainIteration(fetch, tag) ==
    /\ lastOp = "none"
    /\ LET r == MainBody(file, fetch, tag)
       IN  /\ ncm' = r.ncmfile
           /\ disk' = r.written
           /\ tagger' = r.tags
           /\ log' = r.log
           /\ fpos' = r.fpos
           /\ unwrapped' = r.unwrapped
           /\ resolved' = r.resolved
    /\ exc' = "none"
    /\ lastOp' = "main"
    /\ UNCHANGED <<file, dumps>>
    /\ UNCHANGED rc4vars

Next ==
    \/ Construct
    \/ \E fetch \in FetchOutcomes : DecryptCall(fetch)
    \/ \E tag \in TagOutcomes : DumpMusicCall(tag)
    \/ \E fetch \in FetchOutcomes, tag \in TagOutcomes : MainIteration(fetch, tag)

Spec == Init /\ [][Next]_vars

-----------------------------------------------------------------------------
(* Properties of Spec.                                                     *)

\* bytes of the fixed-size fields of the layout: magic, reserved, three
\* length fields, integrity value, reserved
FixedFieldBytes == 8 + 2 + 4 + 4 + 4 + 5 + 4

\* the step is a call of dump_music
DumpStep == lastOp' = "dump_music" /\ dumps' = dumps + 1

\* the format tag of the object's metadata
FormatOf(self) == format(self.metadata.music_metadata)

\* data XORed with the keystream table of key k, cycled from offset 0
KeystreamXor(data, k) ==
    LET key_box == RC4KeyBox(RC4KeySchedule(k))
    IN  [i \in 1..Len(data) |-> Xor(data[i], key_box[(i - 1) % 256])]

\* the AES-decrypted, unpadded plaintext of the key blob, when there is one
KeyPlaintext(self) ==
    LET d == NCMAES_decrypt(AES_KEY_RC4_KEY, XorAll(self.rc4_key_enc, RC4_KEY_XORBYTE))
        u == NCMAES_unpad(d.data)
    IN  IF d.exc = "none" /\ u.exc = "none"
        THEN [ok |-> TRUE, data |-> u.data]
        ELSE [ok |-> FALSE, data |-> <<>>]

\* parsing and key unwrap of f succeed and its metadata decoding raises
MetadataAloneFails(f) ==
    LET p == Parse(f)
        k == DecryptRc4Key(p.self)
    IN  /\ p.exc = "none"
        /\ k.exc = "none"
        /\ DecryptMetadata(k.self).exc # "none"

\* C2: truncated input is rejected: the constructor never returns an object
\* whose sections are shorter than their declared lengths or whose
\* fixed-size fields were not all there; it fails with TruncatedContainer.
C2_TruncatedRejected ==
    lastOp = "init" =>
        IF ncm.alive
        THEN /\ Len(ncm.rc4_key_enc) = ncm.rc4_key_enc_size
             /\ Len(ncm.metadata_enc) = ncm.metadata_enc_size
             /\ Len(ncm.cover_data) = ncm.cover_data_size
             /\ Len(file) >= FixedFieldBytes + ncm.rc4_key_enc_size
                             + ncm.metadata_enc_size + ncm.cover_data_size
        ELSE exc \in {"TypeError", "TruncatedContainer"}

\* C3: an input whose first 8 bytes are not the magic (inputs shorter than
\* 8 bytes included) makes the constructor raise the invalid-format error
\* (TypeError): no object exists, nothing past the header was read, and the
\* __main__ loop logs the error and writes nothing.
C3_BadMagicRejected ==
    (lastOp # "none" /\ Take(file, 8) # MAGIC_HEADER) =>
        /\ ~ncm.alive
        /\ fpos = Len(Take(file, 8))
        /\ lastOp \in {"init", "main"}
        /\ lastOp = "init" => exc = "TypeError"
        /\ lastOp = "main" => log = {<<"ERROR", "TypeError">>}
        /\ disk = <<>>
        /\ tagger = <<>>

\* the constructor raised on a file that is a proper, non-empty prefix of
\* the magic
C3_Witness ==
    /\ lastOp = "init"
    /\ exc = "TypeError"
    /\ Len(file) \in 1..7
    /\ file = Take(MAGIC_HEADER, Len(file))

\* C4: when only metadata decoding fails (parsing and key unwrap succeed),
\* the per-file operation of __main__ still writes the decrypted audio and
\* reports the metadata failure as a warning, not as an error.
C4_MetadataFailureKeepsAudio ==
    (lastOp = "main" /\ MetadataAloneFails(file)) =>
        /\ Len(disk) = 1
        /\ \A l \in log : l[1] = "WARNING"

\* C5: once decrypt() has returned, has_cover is true exactly when the
\* held cover bytes are non-empty.
C5_HasCoverIffBytes ==
    (ncm.alive /\ resolved) => (has_cover(ncm) <=> Len(ncm.cover_data) > 0)

\* C6: when the unpadded plaintext of the key blob does not begin with
\* b"neteasecloudmusic", decrypt() fails with CorruptKey and no key is stored.
C6_CorruptKeyRejected ==
    (ncm.alive /\ lastOp = "decrypt"
     /\ KeyPlaintext(ncm).ok
     /\ Take(KeyPlaintext(ncm).data, Len(KEY_PREFIX)) # KEY_PREFIX) =>
        /\ exc = "CorruptKey"
        /\ ncm.rc4_key = <<>>

\* C7: when the format tag is neither "flac" nor "mp3", dump_music writes
\* the complete decrypted audio first, then raises the unsupported-format
\* error (NotImplementedError), and calls no tag writer. Stated for calls
\* made with a non-empty unwrapped key: with an empty key the engine
\* constructor fails before any write (C10).
C7_UnsupportedFormat ==
    [][ (/\ DumpStep
         /\ FormatOf(ncm) \notin {"flac", "mp3"}
         /\ ncm.rc4_key # <<>>) =>
            /\ exc' = "NotImplementedError"
            /\ disk' = Append(disk, [suffix |-> FormatOf(ncm),
                                     data |-> KeystreamXor(ncm.music_data_enc,
                                                           ncm.rc4_key)])
            /\ tagger' = tagger ]_vars

C9_FreshEnginePerDecrypt ==
    (ncm.alive /\ Len(disk) > 0) =>
        /\ ncm.rc4_key # <<>>
        /\ \A i \in 1..Len(disk) :
              disk[i].data = KeystreamXor(ncm.music_data_enc, ncm.rc4_key)

\* dump_music wrote the audio twice, with non-empty audio
C9_Witness ==
    /\ ncm.alive
    /\ Len(disk) = 2
    /\ disk[1].data # <<>>
    /\ disk[2].data = disk[1].data

\* C10: audio is written only after a key unwrap returned, with a non-empty
\* key that is the one unwrapped from the key blob; a dump_music called
\* while the key is empty raises ZeroDivisionError from the engine
\* constructor and writes and tags nothing.
C10_AudioOnlyWithUnwrappedKey ==
    [][ /\ (disk' # disk) =>
              /\ ncm'.alive
              /\ unwrapped'
              /\ ncm'.rc4_key # <<>>
              /\ KeyPlaintext(ncm').ok
              /\ ncm'.rc4_key = Drop(KeyPlaintext(ncm').data, Len(KEY_PREFIX))
        /\ (DumpStep /\ ncm.rc4_key = <<>>) =>
              /\ exc' = "ZeroDivisionError"
              /\ disk' = disk
              /\ tagger' = tagger ]_vars

\* a dump_music before decrypt() wrote nothing, and one after it wrote the
\* audio
C10_Witness ==
    /\ dumps = 2
    /\ Len(disk) = 1
    /\ unwrapped
    /\ ncm.rc4_key # <<>>

=============================================================================
